---- MODULE Spec2Model ----
(***************************************************************************)
(* goodlark v1.1: batched read / write of a Feishu spreadsheet.            *)
(* The model follows src/goodlark_v1.1/goodlark.py: the column index       *)
(* (generate_col_order_info), the range arithmetic (complete_data_range),  *)
(* the batched write (batch_write_multi_data) and the batched read         *)
(* (load_sheet_data_to_df) with their retry loops, and the single write    *)
(* (write_multi_data) and read (load_data_from_sheet).  The remote service *)
(* is the environment: it answers each request with a status chosen freely *)
(* and numbers the tenant access tokens it issues.                         *)
(***************************************************************************)
EXTENDS Integers, Sequences, FiniteSets, TLC

VARIABLES
    op,             \* the method being executed, "none" when the client is idle
    pc,             \* position in the method: which request is awaited, or the outcome
    args,           \* the arguments of the call
    bearer_token,   \* local bearer_token of the call (0: not yet obtained)
    sheet_id,       \* local sheet_id of the call ("": not yet resolved)
    url_list,       \* read: the planned row windows (one per url)
    idx,            \* write: current_start_idx; read: position in url_list
    attempt,        \* loop variable of the retry loop
    data_all,       \* read: rows collected so far
    calls,          \* network calls other than data get/put issued by this call, in order
    sent,           \* the sub-requests issued by this call, in order of first issue
    unit_log,       \* the events of the current sub-request: requests, responses, sleeps
    committed,      \* the sub-requests that were answered with success, in order
    response_dict,  \* the last response received
    result,         \* the returned value or the raised error
    auth,           \* the tokens carried by the data requests of this call
    issued,         \* remote: how many tenant access tokens it has issued so far
    caller          \* the method the write was called through, with its batch_size

vars == <<op, pc, args, bearer_token, sheet_id, url_list, idx, attempt, data_all,
          calls, sent, unit_log, committed, response_dict, result, auth, issued,
          caller>>

----------------------------------------------------------------------------
(* Bounds of the model *)

\* most rows of a grid passed to a write
MaxRows == 3
\* most cells of one row of a grid passed to a write
MaxCols == 2
\* largest batch_size passed by a caller
MaxBatch == 3
\* largest row number passed to a read
MaxRowId == 4
\* most tenant access tokens the remote issues
MaxTokens == 2

----------------------------------------------------------------------------
(* Python helpers *)

Range(s) == {s[i] : i \in DOMAIN s}

Min(a, b) == IF a <= b THEN a ELSE b

\* a // b of Python (floor division), b # 0
PyFloorDiv(a, b) ==
    IF b > 0
    THEN IF a >= 0 THEN a \div b ELSE -(((-a) + b - 1) \div b)
    ELSE IF a >= 0 THEN -((a + (-b) - 1) \div (-b)) ELSE (-a) \div (-b)

\* a % b of Python, b # 0
PyMod(a, b) == a - b * PyFloorDiv(a, b)

\* list(range(start, stop, step)), step # 0
PyRange(start, stop, step) ==
    LET n == IF step > 0
             THEN IF stop > start THEN ((stop - start) + step - 1) \div step ELSE 0
             ELSE IF start > stop THEN ((start - stop) + (-step) - 1) \div (-step) ELSE 0
    IN [k \in 1..n |-> start + (k - 1) * step]

\* data[i:j] for 0 <= i, 0 <= j
PySlice(data, i, j) == SubSeq(data, i + 1, Min(j, Len(data)))

Letters == <<"A","B","C","D","E","F","G","H","I","J","K","L","M",
             "N","O","P","Q","R","S","T","U","V","W","X","Y","Z">>

LowerLetters == <<"a","b","c","d","e","f","g","h","i","j","k","l","m",
                  "n","o","p","q","r","s","t","u","v","w","x","y","z">>

Digits == <<"0","1","2","3","4","5","6","7","8","9">>

IsLetter(c) == c \in Range(Letters) \cup Range(LowerLetters)

IsDigit(c) == c \in Range(Digits)

\* str.upper() on one character
UpperChar(c) ==
    IF c \in Range(LowerLetters)
    THEN Letters[CHOOSE i \in 1..26 : LowerLetters[i] = c]
    ELSE c

Upper(s) == [i \in 1..Len(s) |-> UpperChar(s[i])]

DigitVal(c) == (CHOOSE i \in 1..10 : Digits[i] = c) - 1

\* int(s) for a string of decimal digits
RECURSIVE PyInt(_)
PyInt(s) ==
    IF Len(s) = 0 THEN 0
    ELSE 10 * PyInt(SubSeq(s, 1, Len(s) - 1)) + DigitVal(s[Len(s)])

\* str(n) for n >= 0, as in an f-string
RECURSIVE PyStr(_)
PyStr(n) ==
    IF n < 10 THEN <<Digits[n + 1]>>
    ELSE PyStr(n \div 10) \o <<Digits[(n % 10) + 1]>>

\* last position of the run of characters of one class that starts at i
RECURSIVE RunEnd(_, _, _)
RunEnd(s, i, letters) ==
    IF i < Len(s) /\ (IF letters THEN IsLetter(s[i + 1]) ELSE IsDigit(s[i + 1]))
    THEN RunEnd(s, i + 1, letters)
    ELSE i

\* re.search(r'([A-Za-z]+)(\d+)', s): the leftmost letters-then-digits match
MatchAt(s, i) ==
    /\ IsLetter(s[i])
    /\ RunEnd(s, i, TRUE) < Len(s)
    /\ IsDigit(s[RunEnd(s, i, TRUE) + 1])

re_search(s) ==
    IF \E i \in 1..Len(s) : MatchAt(s, i)
    THEN LET i == CHOOSE k \in 1..Len(s) :
                      MatchAt(s, k) /\ \A j \in 1..(k - 1) : ~MatchAt(s, j)
             e == RunEnd(s, i, TRUE)
         IN [found |-> TRUE,
             group1 |-> SubSeq(s, i, e),
             group2 |-> SubSeq(s, e + 1, RunEnd(s, e + 1, FALSE))]
    ELSE [found |-> FALSE, group1 |-> <<>>, group2 |-> <<>>]

----------------------------------------------------------------------------
(* generate_col_order_info *)

A_Z_list == [i \in 1..26 |-> <<Letters[i]>>]

\* the two loops of the comprehension swapped
AA_ZZ_list_swapped ==
    [k \in 1..(26 * 26) |-> <<Letters[((k - 1) % 26) + 1], Letters[((k - 1) \div 26) + 1]>>]

\* the list comprehension: i is the outer loop, j the inner one
AA_ZZ_list ==
    [k \in 1..(26 * 26) |-> <<Letters[((k - 1) \div 26) + 1], Letters[((k - 1) % 26) + 1]>>]

A_ZZ_list == A_Z_list \o AA_ZZ_list

\* {col: i for i, col in enumerate(A_ZZ_list)}: a later entry overwrites an earlier one
col_to_order ==
    [col \in Range(A_ZZ_list) |->
        (CHOOSE i \in 1..Len(A_ZZ_list) :
            A_ZZ_list[i] = col /\ \A j \in (i + 1)..Len(A_ZZ_list) : A_ZZ_list[j] # col) - 1]

\* a dict that goes round: the orders after 701 start again at A
order_to_col_wide ==
    [i \in 0..(Len(A_ZZ_list) + 25) |-> A_ZZ_list[(i % Len(A_ZZ_list)) + 1]]

\* {i: col for i, col in enumerate(A_ZZ_list)}
order_to_col == [i \in 0..(Len(A_ZZ_list) - 1) |-> A_ZZ_list[i + 1]]

----------------------------------------------------------------------------
(* Cell values.  A cell is an integer: the three values below stand for    *)
(* None, float('nan') and the empty string, every positive integer for an  *)
(* ordinary text or number.                                                *)

None == -2

NaN == -1

EmptyStr == 0

\* a test that knows None only
pd_isna_none_only(item) == item = None

\* pd.isna(item)
pd_isna(item) == item \in {None, NaN}

\* the error raised by a method: the chain of "Failed: <method>." prefixes, the
\* innermost exception, and the remote code and message when the text has them
Error(where, cause, code, msg) ==
    [type |-> "error", where |-> where, cause |-> cause, code |-> code, msg |-> msg]

NoResult == [type |-> "none"]

----------------------------------------------------------------------------
(* to_2d_list *)

to_2d_list(input_data) ==
    IF input_data.type = "dataframe"
    THEN [ok |-> TRUE, list_data |-> <<input_data.columns>> \o input_data.values]
    ELSE IF input_data.type = "dict"
    THEN LET key_list == input_data.keys
             value_list == input_data.values
             value_lengths == {Len(value_list[k]) : k \in 1..Len(value_list)}
         IN IF Cardinality(value_lengths) # 1
            THEN [ok |-> FALSE, err |-> Error(<<"to_2d_list">>, "ValueError", 0, "")]
            ELSE LET sample_num == Len(value_list[1])
                 IN [ok |-> TRUE,
                     list_data |-> <<key_list>> \o
                        [i \in 1..sample_num |->
                            [k \in 1..Len(value_list) |-> value_list[k][i]]]]
    ELSE [ok |-> FALSE, err |-> Error(<<"to_2d_list">>, "ValueError", 0, "")]

\* a check that lets every list through
rows_valid_unchecked(formatted_data) == TRUE

\* a check that only looks for empty rows
rows_valid_ragged(formatted_data) ==
    \A r \in 1..Len(formatted_data) : Len(formatted_data[r]) # 0

\* the check of the 2d list: no empty row, all rows of one length
rows_valid(formatted_data) ==
    /\ \A r \in 1..Len(formatted_data) : Len(formatted_data[r]) # 0
    /\ Cardinality({Len(formatted_data[r]) : r \in 1..Len(formatted_data)}) = 1

\* [["" if pd.isna(item) else item for item in sublist] for sublist in formatted_data]
standardize(formatted_data) ==
    [r \in 1..Len(formatted_data) |->
        [c \in 1..Len(formatted_data[r]) |->
            IF pd_isna(formatted_data[r][c]) THEN EmptyStr ELSE formatted_data[r][c]]]

----------------------------------------------------------------------------
(* complete_data_range *)

\* a data range "<start_letter><start_number>:<end_letter><end_number>"
DataRange(start_letter, start_number, end_letter, end_number) ==
    [start_letter |-> start_letter, start_number |-> start_number,
     end_letter |-> end_letter, end_number |-> end_number]

\* an end column one column too far
end_order_over(start_letter, col_num) == col_to_order[start_letter] + col_num

\* col_order_info['col_to_order'][start_letter] + col_num - 1
end_order(start_letter, col_num) == col_to_order[start_letter] + col_num - 1

\* start_number + row_num - 1
end_row(start_number, row_num) == start_number + row_num - 1

\* search_match is computed once from start_loc and handed to range_of
complete_data_range(start_loc, input_data) ==
    LET failed(cause) == [ok |-> FALSE, err |-> Error(<<"complete_data_range">>, cause, 0, "")]
        range_of(search_match) ==
            IF ~search_match.found THEN failed("AttributeError")
            ELSE LET start_letter == Upper(search_match.group1)
                     start_number == PyInt(search_match.group2)
                 IN IF ~rows_valid(input_data) THEN failed("ValueError")
                    ELSE LET row_num == Len(input_data)
                             col_num == Len(input_data[1])
                         IN IF start_letter \notin DOMAIN col_to_order THEN failed("KeyError")
                            ELSE LET end_letter_order == end_order(start_letter, col_num)
                                 IN IF end_letter_order \notin DOMAIN order_to_col
                                    THEN failed("KeyError")
                                    ELSE [ok |-> TRUE,
                                          data_range |->
                                             DataRange(start_letter, start_number,
                                                       order_to_col[end_letter_order],
                                                       end_row(start_number, row_num))]
    IN CHOOSE r \in {range_of(m) : m \in {re_search(loc) : loc \in {start_loc}}} : TRUE

----------------------------------------------------------------------------
(* The remote service (environment) *)

\* the code of "payload too large"
PayloadTooLarge == 90227

Success == [code |-> 0, msg |-> "success"]

TooLarge == [code |-> PayloadTooLarge, msg |-> "TooLargeRequest"]

\* two responses with some other non-zero code
OtherFailures ==
    {[code |-> 99991400, msg |-> "request trigger frequency limit"],
     [code |-> 1310235, msg |-> "retry later"]}

Responses == {Success, TooLarge} \cup OtherFailures

\* the sheets of the spreadsheet: title -> sheet_id
name_id_dict == [title \in {"Sheet1"} |-> "sid1"]

----------------------------------------------------------------------------
(* Arguments of the calls *)

Cell(r, c) == 10 * r + c

Shapes == UNION {[1..n -> 0..MaxCols] : n \in 0..MaxRows}

\* a list of rows of the given lengths; with nulls, its first cell is NaN and its
\* last cell is None
Grid(shape, nulls) ==
    [r \in 1..Len(shape) |->
        [c \in 1..shape[r] |->
            IF nulls /\ r = 1 /\ c = 1 THEN NaN
            ELSE IF nulls /\ r = Len(shape) /\ c = shape[r] THEN None
            ELSE Cell(r, c)]]

ListInputs == {[type |-> "list", rows |-> Grid(shape, nulls)] : shape \in Shapes, nulls \in BOOLEAN}

\* dicts label -> list of values, of every combination of lengths
DictInputs ==
    {[type |-> "dict",
      keys |-> [k \in 1..Len(lens) |-> 100 + k],
      values |-> [k \in 1..Len(lens) |-> [i \in 1..lens[k] |-> Cell(i, k)]]] :
        lens \in UNION {[1..n -> 0..(MaxRows - 1)] : n \in 0..MaxCols}}

DataFrameInputs ==
    {[type |-> "dataframe",
      columns |-> [k \in 1..n |-> 100 + k],
      values |-> [i \in 1..m |-> [k \in 1..n |-> IF i = m /\ k = 1 THEN NaN ELSE Cell(i, k)]]] :
        n \in 0..MaxCols, m \in 0..(MaxRows - 1)}

StartLocs ==
    {<<"c", "2">>, <<"Z", "1">>, <<"Z", "Z", "9">>, <<"1", "A">>, <<"A", "A", "A", "1">>}

SheetNames == {"Sheet1", "Missing"}

BatchSizes == (-1)..MaxBatch

WriteArgs ==
    [sheet_name : SheetNames, start_loc : StartLocs,
     input_data : ListInputs \cup DictInputs \cup DataFrameInputs,
     batch_size : BatchSizes]

----------------------------------------------------------------------------
(* The request headers *)

\* headers that carry the token issued before the one at hand
headers_stale(tok) == [Authorization |-> IF tok > 1 THEN tok - 1 ELSE tok]

\* headers = {'Authorization': f'Bearer {bearer_token}'}
headers(tok) == [Authorization |-> tok]

\* the positions at which the call awaits the response to a data get or put
AwaitingData == {"put", "put_multi", "head", "get", "get_single"}

\* a step that ends at such a position has sent the request, with the headers of the call
SendsWith(tok) ==
    auth' = IF pc' \in AwaitingData THEN auth \cup {headers(tok).Authorization} ELSE auth

----------------------------------------------------------------------------
(* batch_write_multi_data *)

\* one attempt more
max_attempts_six == 5 + 1

\* attempts of one batch
max_attempts == 5

\* 10 * (attempt + 1)
wait_time(a) == 10 * (a + 1)

Request(kind, a) == [ev |-> kind, n |-> a]

Response(resp) == [ev |-> "response", n |-> resp.code]

Sleep(t) == [ev |-> "sleep", n |-> t]

formatted(a) ==
    IF a.input_data.type \in {"dataframe", "dict"}
    THEN to_2d_list(a.input_data)
    ELSE [ok |-> TRUE, list_data |-> a.input_data.rows]

standard_data(a) == standardize(formatted(a).list_data)

total_rows(a) == Len(standard_data(a))

\* (total_rows // batch_size) + (1 if total_rows % batch_size != 0 else 0)
batch_num(a) ==
    PyFloorDiv(total_rows(a), a.batch_size)
        + (IF PyMod(total_rows(a), a.batch_size) # 0 THEN 1 ELSE 0)

\* an end index one row too far
current_end_idx_over(a, current_start_idx) ==
    Min(current_start_idx + a.batch_size + 1, total_rows(a))

\* current_end_idx = min(current_start_idx + batch_size, total_rows)
current_end_idx(a, current_start_idx) == Min(current_start_idx + a.batch_size, total_rows(a))

\* standard_data[current_start_idx : current_end_idx]
current_data(a, current_start_idx) ==
    PySlice(standard_data(a), current_start_idx, current_end_idx(a, current_start_idx))

\* a start cell that forgets the rows already written
batch_start_loc_fixed(a, current_start_idx) ==
    LET search_match == re_search(a.start_loc)
    IN Upper(search_match.group1) \o PyStr(PyInt(search_match.group2))

\* f"{start_letter}{start_number + current_start_idx}", from the one match of start_loc
batch_start_loc(a, current_start_idx) ==
    LET loc(search_match) ==
            Upper(search_match.group1)
                \o PyStr(PyInt(search_match.group2) + current_start_idx)
    IN CHOOSE l \in {loc(m) : m \in {re_search(a.start_loc)}} : TRUE

\* a loop that leaves out every other batch
next_start_idx_skip(a, current_start_idx) == current_start_idx + 2 * a.batch_size

\* the value range(0, total_rows, batch_size) yields after current_start_idx, if any
next_start_idx(a, current_start_idx) == current_start_idx + a.batch_size

\* whether range(0, total_rows, batch_size) yields current_start_idx
in_batch_range(a, current_start_idx) ==
    current_start_idx \in Range(PyRange(0, total_rows(a), a.batch_size))

\* one pass of the loop body up to the first put of the batch
BeginBatch(a, sid, current_start_idx) ==
    \E current \in {current_data(a, current_start_idx)} :
    \E cdr \in {complete_data_range(batch_start_loc(a, current_start_idx), current)} :
       /\ idx' = current_start_idx
       /\ attempt' = 0
       /\ IF cdr.ok
          THEN /\ pc' = "put"
               /\ sent' = Append(sent, [range |-> [sheet_id |-> sid, data_range |-> cdr.data_range],
                                        values |-> current])
               /\ unit_log' = <<Request("put", 0)>>
               /\ result' = result
          ELSE /\ pc' = "raised"
               /\ sent' = sent
               /\ unit_log' = <<>>
               /\ result' = Error(<<"batch_write_multi_data">> \o cdr.err.where,
                                  cdr.err.cause, 0, "")

Raise(err) ==
    /\ pc' = "raised"
    /\ result' = err

\* a success test that takes the status for an HTTP status
succeeded_http(resp) == resp.code = 200

\* response_dict['code'] == 0
succeeded(resp) == resp.code = 0

\* a failure that is swallowed: the for loop goes on with the next batch
FatalFailure_swallowed(err) ==
    /\ pc' = (IF op = "batch_write_multi_data" THEN "next_batch" ELSE "next_url")
    /\ result' = result

\* the raise that ends the retry loop of a batch: it leaves the for loop as well
FatalFailure(err) == Raise(err)

\* the exception raised for a failed put of the batch at current_start_idx: the text
\* for code 90227 names batch_size, the other text the code and msg of the response
put_error(a, current_start_idx, resp) ==
    IF resp.code = PayloadTooLarge
    THEN [type |-> "error", where |-> <<"batch_write_multi_data">>,
          cause |-> "PayloadTooLarge", code |-> 0, msg |-> "", batch_size |-> a.batch_size]
    ELSE Error(<<"batch_write_multi_data">>, "RequestFailed", resp.code, resp.msg)

\* batch_size: int = 100
default_batch_size == 100

\* batch_write_multi_data from its first line up to the request for the token
WriteBegin(a) ==
    /\ op' = "batch_write_multi_data"
    /\ args' = a
    /\ IF ~formatted(a).ok
       THEN /\ Raise(Error(<<"batch_write_multi_data">> \o formatted(a).err.where,
                           formatted(a).err.cause, 0, ""))
            /\ calls' = calls
       ELSE IF ~rows_valid(formatted(a).list_data)
       THEN /\ Raise(Error(<<"batch_write_multi_data">>, "ValueError", 0, ""))
            /\ calls' = calls
       ELSE /\ pc' = "get_token"
            /\ calls' = Append(calls, "token")
            /\ result' = result

WriteCall ==
    /\ pc = "idle"
    /\ issued < MaxTokens
    /\ \E a \in WriteArgs : WriteBegin(a)
    /\ UNCHANGED <<bearer_token, sheet_id, url_list, idx, attempt, data_all, sent,
                   unit_log, committed, response_dict>>
    /\ UNCHANGED <<auth, issued, caller>>

\* a batch_size that "not batch_size" takes for missing: None or 0
NotGiven == 0

SelectArgs ==
    [sheet_name : {"Sheet1"}, start_loc : {<<"c", "2">>}, input_data : ListInputs,
     batch_size : {NotGiven} \cup (1..MaxBatch)]

\* what the user may type when asked for the batch size
PromptAnswers == 1..MaxBatch

\* select_batch_write_multi_data: a missing batch_size is asked for, then
\* batch_write_multi_data is called with the token, sheet name, start cell and data
SelectCall ==
    /\ pc = "idle"
    /\ issued < MaxTokens
    /\ \E a \in SelectArgs, typed \in PromptAnswers :
        LET batch_size == IF a.batch_size = NotGiven THEN typed ELSE a.batch_size
        IN /\ caller' = [method |-> "select_batch_write_multi_data",
                         batch_size |-> batch_size]
           /\ WriteBegin([sheet_name |-> a.sheet_name, start_loc |-> a.start_loc,
                          input_data |-> a.input_data, batch_size |-> default_batch_size])
    /\ UNCHANGED <<bearer_token, sheet_id, url_list, idx, attempt, data_all, sent,
                   unit_log, committed, response_dict>>
    /\ UNCHANGED <<auth, issued>>

\* the rest of batch_write_multi_data after sheet_id is known, up to the first put
WriteAfterSheet(sid) ==
    IF ~re_search(args.start_loc).found
    THEN /\ Raise(Error(<<"batch_write_multi_data">>, "AttributeError", 0, ""))
         /\ UNCHANGED <<idx, attempt, sent, unit_log>>
    ELSE IF args.batch_size = 0
    THEN /\ Raise(Error(<<"batch_write_multi_data">>, "ZeroDivisionError", 0, ""))
         /\ UNCHANGED <<idx, attempt, sent, unit_log>>
    ELSE IF ~in_batch_range(args, 0)
    THEN /\ pc' = "returned"
         /\ result' = NoResult
         /\ UNCHANGED <<idx, attempt, sent, unit_log>>
    ELSE BeginBatch(args, sid, 0)

\* the response to requests.put
PutResp ==
    /\ pc = "put"
    /\ \E resp \in Responses :
        /\ response_dict' = resp
        /\ IF succeeded(resp)
           THEN /\ pc' = "next_batch"
                /\ unit_log' = Append(unit_log, Response(resp))
                /\ committed' = Append(committed, idx)
                /\ UNCHANGED <<attempt, result>>
           ELSE IF resp.code = PayloadTooLarge
           THEN /\ FatalFailure(put_error(args, idx, resp))
                /\ unit_log' = Append(unit_log, Response(resp))
                /\ UNCHANGED <<attempt, committed>>
           ELSE IF attempt < max_attempts - 1
           THEN /\ pc' = "put"
                /\ attempt' = attempt + 1
                /\ unit_log' = unit_log \o <<Response(resp), Sleep(wait_time(attempt)),
                                             Request("put", attempt + 1)>>
                /\ UNCHANGED <<committed, result>>
           ELSE /\ FatalFailure(put_error(args, idx, resp))
                /\ unit_log' = Append(unit_log, Response(resp))
                /\ UNCHANGED <<attempt, committed>>
    /\ UNCHANGED <<op, args, bearer_token, sheet_id, url_list, idx, data_all, calls, sent>>
    /\ SendsWith(bearer_token)
    /\ UNCHANGED <<issued, caller>>

\* the for loop of batch_write_multi_data moves on after a successful batch
NextBatch ==
    /\ pc = "next_batch"
    /\ IF in_batch_range(args, next_start_idx(args, idx))
       THEN BeginBatch(args, sheet_id, next_start_idx(args, idx))
       ELSE /\ pc' = "returned"
            /\ result' = NoResult
            /\ UNCHANGED <<idx, attempt, sent, unit_log>>
    /\ UNCHANGED <<op, args, bearer_token, sheet_id, url_list, data_all, calls,
                   committed, response_dict>>
    /\ SendsWith(bearer_token)
    /\ UNCHANGED <<issued, caller>>

----------------------------------------------------------------------------
(* write_multi_data *)

WriteMultiArgs ==
    [sheet_name : SheetNames, start_loc : StartLocs,
     input_data : ListInputs \cup DictInputs \cup DataFrameInputs]

WriteMultiCall ==
    /\ pc = "idle"
    /\ issued < MaxTokens
    /\ \E a \in WriteMultiArgs :
        /\ op' = "write_multi_data"
        /\ args' = a
        /\ IF ~formatted(a).ok
           THEN /\ Raise(Error(<<"write_multi_data">> \o formatted(a).err.where,
                               formatted(a).err.cause, 0, ""))
                /\ calls' = calls
           ELSE IF ~rows_valid(formatted(a).list_data)
           THEN /\ Raise(Error(<<"write_multi_data">>, "ValueError", 0, ""))
                /\ calls' = calls
           ELSE /\ pc' = "get_token"
                /\ calls' = Append(calls, "token")
                /\ result' = result
    /\ UNCHANGED <<bearer_token, sheet_id, url_list, idx, attempt, data_all, sent,
                   unit_log, committed, response_dict>>
    /\ UNCHANGED <<auth, issued, caller>>

\* the rest of write_multi_data after sheet_id is known, up to its put
WriteMultiAfterSheet(sid) ==
    LET cdr == complete_data_range(args.start_loc, standard_data(args))
    IN IF cdr.ok
       THEN /\ pc' = "put_multi"
            /\ sent' = Append(sent, [range |-> [sheet_id |-> sid, data_range |-> cdr.data_range],
                                     values |-> standard_data(args)])
            /\ result' = result
       ELSE /\ Raise(Error(<<"write_multi_data">> \o cdr.err.where, cdr.err.cause, 0, ""))
            /\ sent' = sent

\* the response to the one put of write_multi_data
PutMultiResp ==
    /\ pc = "put_multi"
    /\ \E resp \in Responses :
        /\ response_dict' = resp
        /\ IF resp.code = 0
           THEN /\ pc' = "returned"
                /\ result' = NoResult
                /\ committed' = Append(committed, 1)
           ELSE IF resp.code = PayloadTooLarge
           THEN /\ Raise(Error(<<"write_multi_data">>, "PayloadTooLarge", 0, ""))
                /\ committed' = committed
           ELSE /\ Raise(Error(<<"write_multi_data">>, "RequestFailed", resp.code, resp.msg))
                /\ committed' = committed
    /\ UNCHANGED <<op, args, bearer_token, sheet_id, url_list, idx, attempt, data_all,
                   calls, sent, unit_log>>
    /\ UNCHANGED <<auth, issued, caller>>

----------------------------------------------------------------------------
(* The remote sheet read by load_sheet_data_to_df *)

\* the cell of row r in the column of order k: row 1 holds the labels, the label of
\* column B is empty, row 3 is an empty row
RemoteCell(r, k) ==
    IF r = 1 THEN (IF k = 1 THEN EmptyStr ELSE 101 + k)
    ELSE IF r = 3 THEN None
    ELSE Cell(r, k + 1)

\* a range the remote side can serve
WellFormed(data_range) ==
    /\ data_range.start_letter \in DOMAIN col_to_order
    /\ data_range.end_letter \in DOMAIN col_to_order
    /\ col_to_order[data_range.start_letter] <= col_to_order[data_range.end_letter]
    /\ 1 <= data_range.start_number
    /\ data_range.start_number <= data_range.end_number

\* response.json()['data']['valueRange']['values'] of a successful get
RemoteValues(data_range) ==
    LET first == col_to_order[data_range.start_letter]
        width == col_to_order[data_range.end_letter] - first + 1
    IN [i \in 1..(data_range.end_number - data_range.start_number + 1) |->
            [k \in 1..width |-> RemoteCell(data_range.start_number + i - 1, first + k - 1)]]

GetResponses(data_range) ==
    IF WellFormed(data_range) THEN Responses ELSE Responses \ {Success}

----------------------------------------------------------------------------
(* load_sheet_data_to_df *)

ColA == <<"A">>

ColC == <<"C">>

ColPairs == {<<ColA, ColC>>, <<ColC, ColA>>}

TargetColumnNames == {<<>>, <<103, 101>>, <<101, 102>>, <<101, EmptyStr>>}

\* every row span and batch size on the default sheet, and every sheet name, column
\* pair and column selection on one row span
ReadArgs ==
    [sheet_name : {"Sheet1"}, row_id_start : 1..MaxRowId, row_id_end : 1..MaxRowId,
     col_id_start : {ColA}, col_id_end : {ColC}, batch_size : BatchSizes,
     target_column_names : {<<>>}]
    \cup
    {[sheet_name |-> s, row_id_start |-> 2, row_id_end |-> 3,
      col_id_start |-> cp[1], col_id_end |-> cp[2], batch_size |-> 2,
      target_column_names |-> t] :
        s \in SheetNames, cp \in ColPairs, t \in TargetColumnNames}

\* one retry more
max_retries_six == 5 + 1

\* retries of one url
max_retries == 5

\* the windows built by the loop over range(row_id_start, row_id_end + 1, batch_size)
window_starts(a) == PyRange(a.row_id_start, a.row_id_end + 1, a.batch_size)

\* an end row one row too far
current_end_id_over(a, current_start_id) == Min(current_start_id + a.batch_size, a.row_id_end)

\* current_end_id = min(current_start_id + batch_size - 1, row_id_end)
current_end_id(a, current_start_id) == Min(current_start_id + a.batch_size - 1, a.row_id_end)

build_url_list(a, sid) ==
    [k \in 1..Len(window_starts(a)) |->
        [sheet_id |-> sid,
         data_range |-> DataRange(a.col_id_start, window_starts(a)[k],
                                  a.col_id_end, current_end_id(a, window_starts(a)[k]))]]

\* a header fetched for every read
needs_header_always(a) == a.row_id_start >= 1

\* if row_id_start > 1: the header row is fetched by a request of its own
needs_header(a) == a.row_id_start > 1

\* the range of head_section_url
head_section(a, sid) ==
    [sheet_id |-> sid, data_range |-> DataRange(a.col_id_start, 1, a.col_id_end, 1)]

\* rows put in front of those collected before
data_all_extend_front(data, collected) == collected \o data

\* data_all.extend(data_collected)
data_all_extend(data, collected) == data \o collected

\* df.dropna(axis = 0, how = 'all')
dropna_rows(data_values) == SelectSeq(data_values, LAMBDA row : \E c \in 1..Len(row) : ~pd_isna(row[c]))

\* the positions of the columns that are kept: col is None or col == '' or pd.isna(col)
\* are dropped
RECURSIVE kept_columns(_, _)
kept_columns(colname_list, from) ==
    IF from > Len(colname_list) THEN <<>>
    ELSE (IF pd_isna(colname_list[from]) \/ colname_list[from] = EmptyStr
          THEN <<>> ELSE <<from>>) \o kept_columns(colname_list, from + 1)

\* a selection that keeps the columns in the order of the sheet
select_columns_sheet_order(colname_list, kept, targets) ==
    SelectSeq(kept, LAMBDA p : colname_list[p] \in Range(targets))

\* mydf_cleaned[target_column_names]: the positions selected, in the requested order
RECURSIVE select_columns(_, _, _)
select_columns(colname_list, kept, targets) ==
    IF Len(targets) = 0 THEN <<>>
    ELSE SelectSeq(kept, LAMBDA p : colname_list[p] = Head(targets))
            \o select_columns(colname_list, kept, Tail(targets))

DataFrame(colname_list, rows, positions) ==
    [type |-> "dataframe",
     columns |-> [k \in 1..Len(positions) |-> colname_list[positions[k]]],
     values |-> [i \in 1..Len(rows) |-> [k \in 1..Len(positions) |-> rows[i][positions[k]]]]]

\* the end of load_sheet_data_to_df: assemble the dataframe, clean it, select columns
assemble(a, data) ==
    IF Len(data) = 0
    THEN Error(<<"load_sheet_data_to_df">>, "IndexError", 0, "")
    ELSE LET colname_list == data[1]
             rows == dropna_rows(Tail(data))
             kept == kept_columns(colname_list, 1)
         IN IF Len(a.target_column_names) = 0
            THEN DataFrame(colname_list, rows, kept)
            ELSE IF \E t \in Range(a.target_column_names) :
                        \A p \in Range(kept) : colname_list[p] # t
            THEN Error(<<"load_sheet_data_to_df">>, "KeyError", 0, "")
            ELSE DataFrame(colname_list, rows,
                           select_columns(colname_list, kept, a.target_column_names))

Finish(a, data) ==
    /\ pc' = (IF assemble(a, data).type = "error" THEN "raised" ELSE "returned")
    /\ result' = assemble(a, data)

\* a get whose raise_for_status() passes and whose json holds the values; anything
\* else raises inside the try
get_succeeded(resp) == resp.code = 0

\* the first get of the url at position k of the list
BeginUrl(urls, k) ==
    /\ pc' = "get"
    /\ idx' = k
    /\ attempt' = 0
    /\ sent' = Append(sent, [range |-> urls[k]])
    /\ unit_log' = <<Request("get", 0)>>
    /\ result' = result

ReadCall ==
    /\ pc = "idle"
    /\ issued < MaxTokens
    /\ \E a \in ReadArgs :
        /\ op' = "load_sheet_data_to_df"
        /\ args' = a
    /\ pc' = "get_token"
    /\ calls' = Append(calls, "token")
    /\ UNCHANGED <<bearer_token, sheet_id, url_list, idx, attempt, data_all, sent,
                   unit_log, committed, response_dict, result>>
    /\ UNCHANGED <<auth, issued, caller>>

\* the rest of load_sheet_data_to_df after sheet_id is known, up to the first get
ReadAfterSheet(sid) ==
    IF args.batch_size = 0
    THEN /\ Raise(Error(<<>>, "ValueError", 0, ""))
         /\ UNCHANGED <<url_list, idx, attempt, sent, unit_log, calls>>
    ELSE /\ url_list' = build_url_list(args, sid)
         /\ IF needs_header(args)
            THEN /\ pc' = "head"
                 /\ calls' = Append(calls, "header")
                 /\ UNCHANGED <<idx, attempt, sent, unit_log, result>>
            ELSE /\ calls' = calls
                 /\ IF Len(build_url_list(args, sid)) > 0
                    THEN BeginUrl(build_url_list(args, sid), 1)
                    ELSE /\ Finish(args, data_all)
                         /\ UNCHANGED <<idx, attempt, sent, unit_log>>

\* the "Failed: <method>." the caller puts before an error of the token request or
\* of the sheet lookup: the writes make them inside their try, the read before it
in_try(method) ==
    IF method \in {"batch_write_multi_data", "write_multi_data"} THEN <<method>> ELSE <<>>

\* the response to the request of get_tenant_access_token
TokenResp ==
    /\ pc = "get_token"
    /\ \E ok \in BOOLEAN :
        IF ok
        THEN /\ bearer_token' = issued + 1
             /\ issued' = issued + 1
             /\ result' = result
             /\ IF op = "load_data_from_sheet"
                THEN /\ pc' = "get_single"
                     /\ sent' = Append(sent, [range |-> [sheet_id |-> sheet_id,
                                                         data_range |-> args.data_range]])
                     /\ calls' = calls
                ELSE /\ pc' = "query_sheet"
                     /\ calls' = Append(calls, "sheet_query")
                     /\ sent' = sent
        ELSE /\ Raise(Error(in_try(op)
                                \o <<"get_tenant_access_token">>, "Exception", 0, ""))
             /\ UNCHANGED <<bearer_token, issued, calls, sent>>
    /\ UNCHANGED <<op, args, sheet_id, url_list, idx, attempt, data_all,
                   unit_log, committed, response_dict>>
    /\ SendsWith(bearer_token')
    /\ UNCHANGED caller

\* the response to the query of get_name_id_dict, and what follows it in the caller
SheetResp ==
    /\ pc = "query_sheet"
    /\ \E ok \in BOOLEAN :
        IF ~ok
        THEN /\ Raise(Error(in_try(op)
                                \o <<"get_name_id_dict">>, "Exception", 0, ""))
             /\ UNCHANGED <<sheet_id, url_list, idx, attempt, sent, unit_log, calls>>
        ELSE IF args.sheet_name \notin DOMAIN name_id_dict
        THEN /\ Raise(Error(in_try(op),
                            "KeyError", 0, ""))
             /\ UNCHANGED <<sheet_id, url_list, idx, attempt, sent, unit_log, calls>>
        ELSE /\ sheet_id' = name_id_dict[args.sheet_name]
             /\ IF op = "batch_write_multi_data"
                THEN /\ WriteAfterSheet(name_id_dict[args.sheet_name])
                     /\ UNCHANGED <<url_list, calls>>
                ELSE IF op = "write_multi_data"
                THEN /\ WriteMultiAfterSheet(name_id_dict[args.sheet_name])
                     /\ UNCHANGED <<url_list, idx, attempt, unit_log, calls>>
                ELSE IF op = "load_data_from_sheet"
                THEN /\ pc' = "get_token"
                     /\ calls' = Append(calls, "token")
                     /\ UNCHANGED <<url_list, idx, attempt, sent, unit_log, result>>
                ELSE ReadAfterSheet(name_id_dict[args.sheet_name])
    /\ UNCHANGED <<op, args, bearer_token, data_all, committed, response_dict>>
    /\ SendsWith(bearer_token)
    /\ UNCHANGED <<issued, caller>>

\* the response to the get of the header row (not retried)
HeadResp ==
    /\ pc = "head"
    /\ \E resp \in GetResponses(head_section(args, sheet_id).data_range) :
        /\ response_dict' = resp
        /\ IF get_succeeded(resp)
           THEN /\ data_all' = data_all_extend(data_all,
                                     RemoteValues(head_section(args, sheet_id).data_range))
                /\ IF Len(url_list) > 0
                   THEN BeginUrl(url_list, 1)
                   ELSE /\ Finish(args, data_all_extend(data_all,
                                     RemoteValues(head_section(args, sheet_id).data_range)))
                        /\ UNCHANGED <<idx, attempt, sent, unit_log>>
           ELSE /\ Raise(Error(<<"load_sheet_data_to_df">>, "HTTPError", resp.code, resp.msg))
                /\ UNCHANGED <<data_all, idx, attempt, sent, unit_log>>
    /\ UNCHANGED <<op, args, bearer_token, sheet_id, url_list, calls, committed>>
    /\ SendsWith(bearer_token)
    /\ UNCHANGED <<issued, caller>>

\* the response to requests.get of a data window
GetResp ==
    /\ pc = "get"
    /\ \E resp \in GetResponses(url_list[idx].data_range) :
        /\ response_dict' = resp
        /\ IF get_succeeded(resp)
           THEN /\ pc' = "next_url"
                /\ data_all' = data_all_extend(data_all, RemoteValues(url_list[idx].data_range))
                /\ unit_log' = Append(unit_log, Response(resp))
                /\ committed' = Append(committed, idx)
                /\ UNCHANGED <<attempt, result>>
           ELSE IF attempt < max_retries - 1
           THEN /\ pc' = "get"
                /\ attempt' = attempt + 1
                /\ unit_log' = unit_log \o <<Response(resp), Sleep(wait_time(attempt)),
                                             Request("get", attempt + 1)>>
                /\ UNCHANGED <<data_all, committed, result>>
           ELSE /\ FatalFailure(Error(<<"load_sheet_data_to_df">>, "HTTPError",
                                      resp.code, resp.msg))
                /\ unit_log' = Append(unit_log, Response(resp))
                /\ UNCHANGED <<data_all, attempt, committed>>
    /\ UNCHANGED <<op, args, bearer_token, sheet_id, url_list, idx, calls, sent>>
    /\ SendsWith(bearer_token)
    /\ UNCHANGED <<issued, caller>>

\* the for loop over url_list moves on after a successful get
NextUrl ==
    /\ pc = "next_url"
    /\ IF idx < Len(url_list)
       THEN BeginUrl(url_list, idx + 1)
       ELSE /\ Finish(args, data_all)
            /\ UNCHANGED <<idx, attempt, sent, unit_log>>
    /\ UNCHANGED <<op, args, bearer_token, sheet_id, url_list, data_all, calls,
                   committed, response_dict>>
    /\ SendsWith(bearer_token)
    /\ UNCHANGED <<issued, caller>>

----------------------------------------------------------------------------
(* load_data_from_sheet *)

LoadArgs ==
    [sheet_name : SheetNames,
     data_range : {DataRange(ColA, 1, ColC, 2), DataRange(ColC, 2, ColA, 1)}]

\* the call starts with the sheet lookup; the token is requested after it
LoadCall ==
    /\ pc = "idle"
    /\ issued < MaxTokens
    /\ \E a \in LoadArgs :
        /\ op' = "load_data_from_sheet"
        /\ args' = a
    /\ pc' = "query_sheet"
    /\ calls' = Append(calls, "sheet_query")
    /\ UNCHANGED <<bearer_token, sheet_id, url_list, idx, attempt, data_all, sent,
                   unit_log, committed, response_dict, result, auth, issued,
                   caller>>

\* the response to the one get of load_data_from_sheet
LoadResp ==
    /\ pc = "get_single"
    /\ \E resp \in GetResponses(args.data_range) :
        /\ response_dict' = resp
        /\ IF get_succeeded(resp)
           THEN /\ pc' = "returned"
                /\ result' = [type |-> "values", values |-> RemoteValues(args.data_range)]
                /\ committed' = Append(committed, 1)
           ELSE /\ Raise(Error(<<"load_data_from_sheet">>, "HTTPError", resp.code, resp.msg))
                /\ committed' = committed
    /\ UNCHANGED <<op, args, bearer_token, sheet_id, url_list, idx, attempt, data_all,
                   calls, sent, unit_log, auth, issued, caller>>

----------------------------------------------------------------------------
(* complete_data_range called by the client itself *)

RangeLocs ==
    {<<"A", "1">>, <<"c", "2">>, <<"Y", "1", "0">>, <<"a", "b", "0", "7">>, <<"Z", "Y", "9">>,
     <<"Z", "Z", "9">>, <<"1", "A">>, <<"A", "A", "A", "1">>}

RangeArgs == [start_loc : RangeLocs, input_data : {Grid(shape, FALSE) : shape \in Shapes}]

RangeCall ==
    /\ pc = "idle"
    /\ \E a \in RangeArgs :
        /\ op' = "complete_data_range"
        /\ args' = a
        /\ IF complete_data_range(a.start_loc, a.input_data).ok
           THEN /\ pc' = "returned"
                /\ result' = [type |-> "range",
                              data_range |-> complete_data_range(a.start_loc, a.input_data).data_range]
           ELSE Raise(complete_data_range(a.start_loc, a.input_data).err)
    /\ UNCHANGED <<bearer_token, sheet_id, url_list, idx, attempt, data_all, calls, sent,
                   unit_log, committed, response_dict>>
    /\ UNCHANGED <<auth, issued, caller>>

----------------------------------------------------------------------------
(* The client *)

NoArgs == [sheet_name |-> ""]

NoResponse == [code |-> 0, msg |-> ""]

\* the method was called directly
NoCaller == [method |-> ""]

Init ==
    /\ op = "none"
    /\ pc = "idle"
    /\ args = NoArgs
    /\ bearer_token = 0
    /\ sheet_id = ""
    /\ url_list = <<>>
    /\ idx = 0
    /\ attempt = 0
    /\ data_all = <<>>
    /\ calls = <<>>
    /\ sent = <<>>
    /\ unit_log = <<>>
    /\ committed = <<>>
    /\ response_dict = NoResponse
    /\ result = NoResult
    /\ auth = {}
    /\ issued = 0
    /\ caller = NoCaller

\* the method has returned or raised: its locals are gone, the client is idle again
Return ==
    /\ pc \in {"returned", "raised"}
    /\ op' = "none"
    /\ pc' = "idle"
    /\ args' = NoArgs
    /\ bearer_token' = 0
    /\ sheet_id' = ""
    /\ url_list' = <<>>
    /\ idx' = 0
    /\ attempt' = 0
    /\ data_all' = <<>>
    /\ calls' = <<>>
    /\ sent' = <<>>
    /\ unit_log' = <<>>
    /\ committed' = <<>>
    /\ response_dict' = NoResponse
    /\ result' = NoResult
    /\ auth' = {}
    /\ caller' = NoCaller
    /\ UNCHANGED issued

Next ==
    \/ WriteCall
    \/ ReadCall
    \/ TokenResp
    \/ SheetResp
    \/ PutResp
    \/ NextBatch
    \/ WriteMultiCall
    \/ PutMultiResp
    \/ HeadResp
    \/ GetResp
    \/ NextUrl
    \/ LoadCall
    \/ LoadResp
    \/ RangeCall
    \/ SelectCall
    \/ Return

Spec == Init /\ [][Next]_vars

----------------------------------------------------------------------------
(* Properties of the retry loop *)

\* the codes of the responses to the current sub-request, in order
ResponseCodes ==
    LET r == SelectSeq(unit_log, LAMBDA e : e.ev = "response")
    IN [j \in 1..Len(r) |-> r[j].n]

\* how often the current sub-request has been sent
NumRequests == Len(SelectSeq(unit_log, LAMBDA e : e.ev \in {"put", "get"}))

\* a non-zero status other than payload too large
Transient(code) == code # 0 /\ code # 90227

\* the sub-request at hand is the last one of sent and was not sent as an earlier unit
CurrentIsNew == Len(sent) > 0 /\ \A j \in 1..(Len(sent) - 1) : sent[j] # sent[Len(sent)]

\* the loop over the sub-requests is over: the call returned, or the read failed to
\* select the requested columns from the assembled data
LoopOver ==
    \/ pc = "returned"
    \/ /\ pc = "raised"
       /\ op = "load_sheet_data_to_df"
       /\ idx = Len(url_list)
       /\ result = Error(<<"load_sheet_data_to_df">>, "KeyError", 0, "")

C1_AfterSuccess ==
    \A k \in 0..4 :
        (/\ Len(ResponseCodes) > k
         /\ \A j \in 1..k : Transient(ResponseCodes[j])
         /\ ResponseCodes[k + 1] = 0)
        => /\ Len(ResponseCodes) = k + 1
           /\ NumRequests = k + 1
           /\ unit_log[Len(unit_log)] = Response(Success)
           /\ \/ pc \in {"next_batch", "next_url"} /\ result = NoResult
              \/ LoopOver
           /\ CurrentIsNew

C1_Continues ==
    pc \in {"next_batch", "next_url"}
    => \/ /\ pc' \in {"put", "get"}
          /\ Len(sent') = Len(sent) + 1
          /\ sent'[Len(sent')] \notin Range(sent)
          /\ NumRequests' = 1
       \/ LoopOver'

\* C1: a sub-request (a batch of batch_write_multi_data, a window of
\* load_sheet_data_to_df) whose first k responses, k in 0..4, are transient failures and
\* whose response k+1 has status 0 has been sent exactly k+1 times, nothing follows the
\* success in its log (no sleep, no further attempt), no error is raised, and the next
\* step of the call sends the next sub-request once, or ends the loop.
C1_SuccessAfterTransient == []C1_AfterSuccess /\ [][C1_Continues]_vars

\* a batch of a write that succeeded on its fifth attempt, after four transient failures
C1_Witness ==
    /\ op = "batch_write_multi_data"
    /\ pc = "next_batch"
    /\ Len(ResponseCodes) = 5
    /\ \A j \in 1..4 : Transient(ResponseCodes[j])
    /\ ResponseCodes[5] = 0
    /\ NumRequests = 5

\* C2 (as claimed): in a batched write and in a batched read, a response with the
\* payload-too-large code 90227 ends the sub-request: it is the last event of its log
\* (no sleep, no further attempt) and the operation has raised.
C2_PayloadTooLargeFatal ==
    \A j \in 1..Len(unit_log) :
        unit_log[j] = Response(TooLarge) => (j = Len(unit_log) /\ pc = "raised")

FailedOnUnit ==
    /\ pc = "raised"
    /\ Len(unit_log) > 0
    /\ unit_log[Len(unit_log)].ev = "response"
    /\ unit_log[Len(unit_log)].n # 0

\* the indexes of the sub-requests sent: the batches' start indexes, the windows' positions
SentIndexes ==
    IF op = "batch_write_multi_data"
    THEN [j \in 1..Len(sent) |-> (j - 1) * args.batch_size]
    ELSE [j \in 1..Len(sent) |-> j]

C4_Prefix ==
    /\ Len(committed) <= Len(sent)
    /\ Len(sent) <= Len(committed) + 1
    /\ committed = SubSeq(SentIndexes, 1, Len(committed))
    /\ FailedOnUnit
       => /\ Len(committed) = Len(sent) - 1
          /\ idx = SentIndexes[Len(sent)]
          /\ NumRequests = Len(ResponseCodes)

C4_NothingAfter == pc = "raised" => (pc' = "idle" /\ sent' = <<>> /\ unit_log' = <<>>)

----------------------------------------------------------------------------
(* Properties of the plans *)

\* ceil(n / b) for b >= 1
Ceil(n, b) == (n + b - 1) \div b

RECURSIVE ConcatValues(_)
ConcatValues(units) ==
    IF Len(units) = 0 THEN <<>>
    ELSE ConcatValues(SubSeq(units, 1, Len(units) - 1)) \o units[Len(units)].values

\* the rows of the batches sent so far, concatenated in the order sent
SentRows == ConcatValues(sent)

\* a write whose grid passed the checks, with a batch size the claims cover
WriteInProgress ==
    /\ op = "batch_write_multi_data"
    /\ formatted(args).ok
    /\ rows_valid(formatted(args).list_data)
    /\ args.batch_size >= 1

\* C5: in a batched write of a rectangular grid with batch_size >= 1, every batch sent
\* holds between 1 and batch_size rows, the batches concatenated in the order sent are
\* the first rows of the (null-free) grid in their order, and when the write returns
\* they are all its rows, in ceil(rowCount / batch_size) batches.
C5_WriteChunks ==
    WriteInProgress
    => /\ \A k \in 1..Len(sent) :
            Len(sent[k].values) >= 1 /\ Len(sent[k].values) <= args.batch_size
       /\ Len(SentRows) <= total_rows(args)
       /\ SentRows = SubSeq(standard_data(args), 1, Len(SentRows))
       /\ pc = "returned"
          => /\ SentRows = standard_data(args)
             /\ Len(sent) = Ceil(Len(formatted(args).list_data), args.batch_size)
             /\ Len(sent) = batch_num(args)

\* a write of three rows in batches of two has returned
C5_Witness ==
    /\ WriteInProgress
    /\ pc = "returned"
    /\ total_rows(args) = 3
    /\ args.batch_size = 2
    /\ Len(sent) = 2
    /\ Len(sent[2].values) = 1

\* the start cells of the model's writes, read by hand
OriginOf(start_loc) ==
    CASE start_loc = <<"c", "2">> -> [col |-> <<"C">>, row |-> 2]
      [] start_loc = <<"Z", "1">> -> [col |-> <<"Z">>, row |-> 1]
      [] start_loc = <<"Z", "Z", "9">> -> [col |-> <<"Z", "Z">>, row |-> 9]
      [] start_loc = <<"A", "1">> -> [col |-> <<"A">>, row |-> 1]
      [] start_loc = <<"Y", "1", "0">> -> [col |-> <<"Y">>, row |-> 10]
      [] start_loc = <<"a", "b", "0", "7">> -> [col |-> <<"A", "B">>, row |-> 7]
      [] start_loc = <<"Z", "Y", "9">> -> [col |-> <<"Z", "Y">>, row |-> 9]
      [] start_loc = <<"A", "A", "A", "1">> -> [col |-> <<"A", "A", "A">>, row |-> 1]
      [] OTHER -> [col |-> <<>>, row |-> 0]

\* the number of rows in the first k batches sent
RowsBefore(k) == Len(ConcatValues(SubSeq(sent, 1, k)))

\* 250 rows of one cell written at C10 in batches of 100
Write250 ==
    [sheet_name |-> "Sheet1", start_loc |-> <<"C", "1", "0">>,
     input_data |-> [type |-> "list", rows |-> [r \in 1..250 |-> <<r>>]],
     batch_size |-> 100]

Write250Plan ==
    [k \in 1..3 |->
        [origin |-> batch_start_loc(Write250, PyRange(0, total_rows(Write250), 100)[k]),
         rows |-> Len(current_data(Write250, PyRange(0, total_rows(Write250), 100)[k])),
         last |-> complete_data_range(
                      batch_start_loc(Write250, PyRange(0, total_rows(Write250), 100)[k]),
                      current_data(Write250, PyRange(0, total_rows(Write250), 100)[k])
                  ).data_range.end_number]]

Write250Expected ==
    /\ Len(PyRange(0, total_rows(Write250), 100)) = 3
    /\ Write250Plan =
        <<[origin |-> <<"C", "1", "0">>, rows |-> 100, last |-> 109],
          [origin |-> <<"C", "1", "1", "0">>, rows |-> 100, last |-> 209],
          [origin |-> <<"C", "2", "1", "0">>, rows |-> 50, last |-> 259]>>

\* C6: the k-th batch of a write is addressed to the range that starts in the start
\* column at start row + rows of the earlier batches and spans as many rows as the batch
\* holds; the ranges of a write follow one another without overlap and, when the write
\* returns, cover start row .. start row + rowCount - 1; 250 rows at C10 in batches of
\* 100 go to C10, C110, C210 with 100, 100, 50 rows.
C6_WriteRanges ==
    /\ Write250Expected
    /\ WriteInProgress
       => /\ \A k \in 1..Len(sent) :
               LET data_range == sent[k].range.data_range
               IN /\ data_range.start_letter = OriginOf(args.start_loc).col
                  /\ data_range.start_number = OriginOf(args.start_loc).row + RowsBefore(k - 1)
                  /\ data_range.end_number = data_range.start_number + Len(sent[k].values) - 1
                  /\ \A j \in 1..(k - 1) :
                        sent[j].range.data_range.end_number < data_range.start_number
          /\ (pc = "returned" /\ Len(sent) > 0)
             => sent[Len(sent)].range.data_range.end_number
                    = OriginOf(args.start_loc).row + total_rows(args) - 1

\* a write at ZZ9 has returned: its second batch went to ZZ10
C6_Witness ==
    /\ WriteInProgress
    /\ pc = "returned"
    /\ args.start_loc = <<"Z", "Z", "9">>
    /\ Len(sent) = 3
    /\ sent[2].range.data_range.start_number = 10
    /\ sent[2].range.data_range.start_letter = <<"Z", "Z">>

\* a read whose url_list has been built, with the row span and batch size the claims cover
ReadPlanned ==
    /\ op = "load_sheet_data_to_df"
    /\ sheet_id # ""
    /\ args.row_id_start <= args.row_id_end
    /\ args.batch_size >= 1

\* C7: for row_id_start <= row_id_end and batch_size >= 1 the windows of url_list start
\* at row_id_start, each ends batch_size - 1 rows after its start or at row_id_end if that
\* comes first, each starts right after the one before, the last ends at row_id_end, and
\* there are ceil((row_id_end - row_id_start + 1) / batch_size) of them; they are
\* requested in that order.
C7_ReadWindows ==
    ReadPlanned
    => /\ Len(url_list) = Ceil(args.row_id_end - args.row_id_start + 1, args.batch_size)
       /\ url_list[1].data_range.start_number = args.row_id_start
       /\ url_list[Len(url_list)].data_range.end_number = args.row_id_end
       /\ \A k \in 1..Len(url_list) :
            LET data_range == url_list[k].data_range
                width == data_range.end_number - data_range.start_number + 1
            IN /\ width >= 1
               /\ width <= args.batch_size
               /\ width = args.batch_size \/ data_range.end_number = args.row_id_end
               /\ k > 1 => data_range.start_number = url_list[k - 1].data_range.end_number + 1
               /\ data_range.start_letter = args.col_id_start
               /\ data_range.end_letter = args.col_id_end
       /\ Len(sent) <= Len(url_list)
       /\ \A k \in 1..Len(sent) : sent[k].range = url_list[k]

\* rows 1 to 4 read in windows of three: rows 1-3, then row 4 alone
C7_Witness ==
    /\ ReadPlanned
    /\ pc = "returned"
    /\ args.row_id_start = 1
    /\ args.row_id_end = 4
    /\ args.batch_size = 3
    /\ Len(sent) = 2
    /\ sent[2].range.data_range.start_number = 4
    /\ sent[2].range.data_range.end_number = 4

\* how many requests for the header row the call has issued
HeaderRequests == Len(SelectSeq(calls, LAMBDA c : c = "header"))

\* the header row as the remote sheet holds it
HeaderRow(a) == RemoteValues(DataRange(a.col_id_start, 1, a.col_id_end, 1))[1]

\* rows 5 to 24 read in windows of 10
Read5to24 ==
    [sheet_name |-> "Sheet1", row_id_start |-> 5, row_id_end |-> 24,
     col_id_start |-> ColA, col_id_end |-> ColC, batch_size |-> 10,
     target_column_names |-> <<>>]

Read5to24Expected ==
    /\ needs_header(Read5to24)
    /\ head_section(Read5to24, "sid1").data_range = DataRange(ColA, 1, ColC, 1)
    /\ [k \in 1..Len(build_url_list(Read5to24, "sid1")) |->
            build_url_list(Read5to24, "sid1")[k].data_range]
        = <<DataRange(ColA, 5, ColC, 14), DataRange(ColA, 15, ColC, 24)>>
    /\ Len(RemoteValues(head_section(Read5to24, "sid1").data_range)
            \o RemoteValues(build_url_list(Read5to24, "sid1")[1].data_range)
            \o RemoteValues(build_url_list(Read5to24, "sid1")[2].data_range)) = 21

\* C8: a read with row_id_start > 1 issues one request for row 1 of the same columns
\* before any request for a window, never a second one; a failure of it raises at once
\* with no window requested; its row is the first row of the collected data. A read with
\* row_id_start = 1 issues no such request. Rows 5-24 in windows of 10 are read as the
\* header, rows 5-14 and rows 15-24: 21 rows.
C8_HeaderFirst ==
    /\ Read5to24Expected
    /\ op = "load_sheet_data_to_df"
       => /\ HeaderRequests <= 1
          /\ args.row_id_start = 1 => HeaderRequests = 0
          /\ pc = "head" => (sent = <<>> /\ data_all = <<>>)
          /\ (args.row_id_start > 1 /\ (Len(sent) > 0 \/ pc \in {"head", "returned"}))
             => HeaderRequests = 1
          /\ (args.row_id_start > 1 /\ Len(sent) > 0)
             => (Len(data_all) > 0 /\ data_all[1] = HeaderRow(args))
          /\ (HeaderRequests = 1 /\ sent = <<>> /\ response_dict.code # 0)
             => /\ pc = "raised"
                /\ data_all = <<>>
                /\ result = Error(<<"load_sheet_data_to_df">>, "HTTPError",
                                  response_dict.code, response_dict.msg)
          /\ (args.row_id_start > 1 /\ pc = "returned")
             => /\ data_all[1] = HeaderRow(args)
                /\ Len(data_all) = 1
                        + (IF Len(url_list) = 0 THEN 0
                           ELSE url_list[Len(url_list)].data_range.end_number
                                    - url_list[1].data_range.start_number + 1)

\* rows 2 to 4 read in windows of two, after the header: header + 3 rows collected
C8_Witness ==
    /\ op = "load_sheet_data_to_df"
    /\ pc = "returned"
    /\ args.row_id_start = 2
    /\ args.row_id_end = 4
    /\ args.batch_size = 2
    /\ calls = <<"token", "sheet_query", "header">>
    /\ Len(sent) = 2
    /\ Len(data_all) = 4
    /\ data_all[1] = HeaderRow(args)

----------------------------------------------------------------------------
(* When the errors of a call are raised *)

\* the errors of the claim: a grid that fails the checks, an origin cell that does not
\* parse, a column outside A..ZZ, a sheet name or a requested column that is not there
GridError == op = "batch_write_multi_data" /\ result.cause = "ValueError"

OriginError == op = "batch_write_multi_data" /\ result.cause = "AttributeError"

ColumnError ==
    /\ result.cause = "KeyError"
    /\ result.where = <<"batch_write_multi_data", "complete_data_range">>

SheetNameError ==
    /\ op \in {"batch_write_multi_data", "load_sheet_data_to_df"}
    /\ result.cause = "KeyError"
    /\ result.where \in {<<"batch_write_multi_data">>, <<>>}

LabelError ==
    /\ result.cause = "KeyError"
    /\ result.where = <<"load_sheet_data_to_df">>

\* C9 (as claimed): when a call raises one of these errors, it has issued no network
\* call at all: no token request, no sheet query, no get or put.
C9_BeforeAnyNetworkCall ==
    (pc = "raised" /\ (GridError \/ OriginError \/ ColumnError \/ SheetNameError \/ LabelError))
    => (calls = <<>> /\ sent = <<>>)

\* an input of a write that is no rectangular grid, told from the input itself
BadGrid(input_data) ==
    IF input_data.type = "list"
    THEN \/ Len(input_data.rows) = 0
         \/ \E r \in 1..Len(input_data.rows) :
                \/ Len(input_data.rows[r]) = 0
                \/ Len(input_data.rows[r]) # Len(input_data.rows[1])
    ELSE IF input_data.type = "dict"
    THEN \/ Len(input_data.keys) = 0
         \/ \E k \in 1..Len(input_data.values) :
                Len(input_data.values[k]) # Len(input_data.values[1])
    ELSE Len(input_data.columns) = 0

\* the number of cells of the first row of the input of a write
InputWidth(input_data) ==
    IF input_data.type = "list" THEN Len(input_data.rows[1])
    ELSE IF input_data.type = "dict" THEN Len(input_data.keys)
    ELSE Len(input_data.columns)

\* a start cell without letters before digits
BadOrigin(a) == a.start_loc = <<"1", "A">>

\* a start cell whose column, or whose last column, is outside A..ZZ
BadColumn(a) ==
    \/ a.start_loc = <<"A", "A", "A", "1">>
    \/ a.start_loc = <<"Z", "Z", "9">> /\ InputWidth(a.input_data) >= 2

\* C9 (amended): a write whose input is no rectangular grid raises before any network
\* call; a write with a malformed origin cell, a column outside A..ZZ or an unknown sheet
\* name never sends a put, and raises that error after the token request and the sheet
\* query; a read with an unknown sheet name requests neither header nor window and raises
\* after the token request and the sheet query; a read raises for a requested column that
\* is not there only after the header and every window have been fetched.
C9_FailFast ==
    /\ (op = "batch_write_multi_data" /\ BadGrid(args.input_data))
       => (pc = "raised" /\ GridError /\ calls = <<>> /\ sent = <<>>)
    /\ (op = "batch_write_multi_data" /\ ~BadGrid(args.input_data)
            /\ (BadOrigin(args) \/ BadColumn(args) \/ args.sheet_name = "Missing"))
       => (sent = <<>> /\ pc \notin {"put", "next_batch"})
    /\ (pc = "raised" /\ GridError) => (calls = <<>> /\ sent = <<>>)
    /\ (pc = "raised" /\ (OriginError \/ ColumnError \/ SheetNameError))
       => (calls = <<"token", "sheet_query">> /\ sent = <<>>)
    /\ (pc = "raised" /\ OriginError) => BadOrigin(args)
    /\ (pc = "raised" /\ ColumnError) => BadColumn(args)
    /\ (pc = "raised" /\ SheetNameError) => args.sheet_name = "Missing"
    /\ (op = "load_sheet_data_to_df" /\ args.sheet_name = "Missing")
       => (sent = <<>> /\ HeaderRequests = 0 /\ pc \in {"get_token", "query_sheet", "raised"})
    /\ (pc = "raised" /\ LabelError)
       => /\ SubSeq(calls, 1, 2) = <<"token", "sheet_query">>
          /\ Len(sent) = Len(url_list)
          /\ Len(committed) = Len(url_list)
          /\ \E t \in Range(args.target_column_names) : t \notin Range(data_all[1]) \ {EmptyStr}

\* a write to a sheet that is not there has raised, after two network calls
C9_Witness ==
    /\ op = "batch_write_multi_data"
    /\ pc = "raised"
    /\ SheetNameError
    /\ args.sheet_name = "Missing"
    /\ calls = <<"token", "sheet_query">>

----------------------------------------------------------------------------
(* The column index, looked up one key at a time *)

\* the labels A..Z, AA..ZZ, written down without the lists of generate_col_order_info
AllLabels ==
    {<<Letters[i]>> : i \in 1..26} \cup {<<Letters[i], Letters[j]>> : i \in 1..26, j \in 1..26}

\* the place of a label among A..Z, AA..ZZ
PlaceOf(label) ==
    LET at(c) == CHOOSE i \in 1..26 : Letters[i] = c
    IN IF Len(label) = 1 THEN at(label[1]) - 1
       ELSE 26 + 26 * (at(label[1]) - 1) + (at(label[2]) - 1)

\* the keys looked up: every order 0..701 and every label
ColumnKeys == [order : 0..701] \cup [col : AllLabels]

ColumnInit ==
    /\ op = "generate_col_order_info"
    /\ pc = "idle"
    /\ args \in ColumnKeys
    /\ bearer_token = 0
    /\ sheet_id = ""
    /\ url_list = <<>>
    /\ idx = 0
    /\ attempt = 0
    /\ data_all = <<>>
    /\ calls = <<>>
    /\ sent = <<>>
    /\ unit_log = <<>>
    /\ committed = <<>>
    /\ response_dict = NoResponse
    /\ result = NoResult
    /\ auth = {}
    /\ issued = 0
    /\ caller = NoCaller

\* order_to_col[order] and back, or col_to_order[col] and back; a missing key raises
ColumnLookup ==
    /\ op = "generate_col_order_info"
    /\ pc = "idle"
    /\ IF "order" \in DOMAIN args
       THEN IF args.order \notin DOMAIN order_to_col
                \/ order_to_col[args.order] \notin DOMAIN col_to_order
            THEN Raise(Error(<<>>, "KeyError", 0, ""))
            ELSE /\ pc' = "returned"
                 /\ result' = [type |-> "lookup", there |-> order_to_col[args.order],
                               back |-> col_to_order[order_to_col[args.order]]]
       ELSE IF args.col \notin DOMAIN col_to_order
                \/ col_to_order[args.col] \notin DOMAIN order_to_col
            THEN Raise(Error(<<>>, "KeyError", 0, ""))
            ELSE /\ pc' = "returned"
                 /\ result' = [type |-> "lookup", there |-> col_to_order[args.col],
                               back |-> order_to_col[col_to_order[args.col]]]
    /\ UNCHANGED <<op, args, bearer_token, sheet_id, url_list, idx, attempt, data_all,
                   calls, sent, unit_log, committed, response_dict>>
    /\ UNCHANGED <<auth, issued, caller>>

ColumnSpec == ColumnInit /\ [][ColumnLookup]_vars

\* C10: the two dicts hold exactly the 702 labels A..Z, AA..ZZ and the orders 0..701;
\* every order looked up in order_to_col and back in col_to_order comes back, every label
\* looked up in col_to_order and back in order_to_col comes back, and a label's order is
\* its place in A..Z (0..25) followed by AA..ZZ in lexicographic order (26..701).
C10_ColumnRoundTrip ==
    /\ DOMAIN col_to_order = AllLabels
    /\ DOMAIN order_to_col = 0..701
    /\ Cardinality(AllLabels) = 702
    /\ pc # "raised"
    /\ pc = "returned"
       => /\ result.back = (IF "order" \in DOMAIN args THEN args.order ELSE args.col)
          /\ IF "order" \in DOMAIN args
             THEN PlaceOf(result.there) = args.order
             ELSE result.there = PlaceOf(args.col)

\* ZZ looked up: order 701, and back
C10_Witness ==
    /\ pc = "returned"
    /\ args = [col |-> <<"Z", "Z">>]
    /\ result.there = 701
    /\ result.back = <<"Z", "Z">>

----------------------------------------------------------------------------
(* The range of a grid *)

\* the label at a place of A..Z, AA..ZZ: one letter up to place 25, then two letters,
\* the first changing every 26 places
LabelAt(place) ==
    IF place < 26 THEN <<Letters[place + 1]>>
    ELSE <<Letters[((place - 26) \div 26) + 1], Letters[((place - 26) % 26) + 1]>>

\* a non-empty list of rows of one non-zero length
Rectangular(rows) ==
    /\ Len(rows) >= 1
    /\ Len(rows[1]) >= 1
    /\ \A r \in 1..Len(rows) : Len(rows[r]) = Len(rows[1])

\* complete_data_range has been called by the client and is over
RangeCalled == op = "complete_data_range" /\ pc \in {"returned", "raised"}

\* the origin of the call stays inside A..ZZ with the columns of the grid
InsideColumns(a) ==
    /\ OriginOf(a.start_loc).col \in AllLabels
    /\ PlaceOf(OriginOf(a.start_loc).col) + Len(a.input_data[1]) - 1 <= 701

\* origin A1 with a grid of 3 rows and 2 columns
RangeA1Expected ==
    complete_data_range(<<"A", "1">>, [r \in 1..3 |-> [c \in 1..2 |-> Cell(r, c)]])
        = [ok |-> TRUE, data_range |-> DataRange(<<"A">>, 1, <<"B">>, 3)]

\* C11: for a non-empty rectangular grid of r rows and c columns and an origin cell
\* (col, row) with place(col) + c - 1 inside A..ZZ, complete_data_range returns the range
\* from (col, row) to the cell in row row + r - 1 of the column at place(col) + c - 1;
\* origin A1 with a grid of 3 rows and 2 columns gives A1:B3.
C11_RangeOfGrid ==
    /\ RangeA1Expected
    /\ (RangeCalled /\ Rectangular(args.input_data) /\ InsideColumns(args))
       => /\ pc = "returned"
          /\ result.type = "range"
          /\ result.data_range =
                DataRange(OriginOf(args.start_loc).col,
                          OriginOf(args.start_loc).row,
                          LabelAt(PlaceOf(OriginOf(args.start_loc).col)
                                    + Len(args.input_data[1]) - 1),
                          OriginOf(args.start_loc).row + Len(args.input_data) - 1)

\* a grid of 3 rows and 2 columns at ab07: the range AB7:AC9
C11_Witness ==
    /\ RangeCalled
    /\ args.start_loc = <<"a", "b", "0", "7">>
    /\ Len(args.input_data) = 3
    /\ Rectangular(args.input_data)
    /\ Len(args.input_data[1]) = 2
    /\ result.type = "range"
    /\ result.data_range = DataRange(<<"A", "B">>, 7, <<"A", "C">>, 9)

\* the origin's column is outside A..ZZ, or the grid's last column would be
OutsideColumns(a) ==
    \/ OriginOf(a.start_loc).col \notin AllLabels
    \/ /\ Len(a.input_data) >= 1
       /\ PlaceOf(OriginOf(a.start_loc).col) + Len(a.input_data[1]) - 1 >= 702

\* C12: complete_data_range raises, and returns no range, whenever the origin's column is
\* not one of the 702 labels or its place + column count - 1 is 702 or more; a batched
\* write whose origin is such raises that error once the sheet is resolved, and a batched
\* write that raised it has sent no put.
C12_OutOfRangeFails ==
    /\ (RangeCalled /\ OutsideColumns(args))
       => /\ pc = "raised"
          /\ result.type = "error"
          /\ result.where = <<"complete_data_range">>
    /\ (op = "batch_write_multi_data" /\ pc = "raised"
            /\ result.where = <<"batch_write_multi_data", "complete_data_range">>)
       => /\ sent = <<>>
          /\ committed = <<>>
          /\ unit_log = <<>>
    /\ (op = "batch_write_multi_data" /\ ~BadGrid(args.input_data) /\ BadColumn(args)
            /\ args.batch_size >= 1 /\ sheet_id # "")
       => /\ pc = "raised"
          /\ result.where = <<"batch_write_multi_data", "complete_data_range">>
          /\ result.cause = "KeyError"

\* a batched write of rows of two cells at ZZ9 has raised: column 702 is not there
C12_Witness ==
    /\ op = "batch_write_multi_data"
    /\ pc = "raised"
    /\ args.start_loc = <<"Z", "Z", "9">>
    /\ args.batch_size = 1
    /\ result.where = <<"batch_write_multi_data", "complete_data_range">>
    /\ total_rows(args) = 3
    /\ InputWidth(args.input_data) = 2
    /\ sent = <<>>

----------------------------------------------------------------------------
(* Normalization of the input of a write *)

\* one of the two writes is in progress or over
Writing == op \in {"batch_write_multi_data", "write_multi_data"}

\* C13: write_multi_data and batch_write_multi_data raise, with no network call made and
\* no put sent, for a dict with no keys, a dict whose value lists differ in length, a
\* list of rows with an empty row or rows of different lengths (and for an empty list
\* and a dataframe without columns); every other input passes the checks, and the grid
\* made from it, like the values of every put, has rows of one non-zero length.
C13_NormalizationRejects ==
    Writing
    => /\ BadGrid(args.input_data)
          => /\ pc = "raised"
             /\ result.type = "error"
             /\ result.cause = "ValueError"
             /\ result.where \in {<<op>>, <<op, "to_2d_list">>}
             /\ calls = <<>>
             /\ sent = <<>>
       /\ ~BadGrid(args.input_data)
          => /\ formatted(args).ok
             /\ Rectangular(formatted(args).list_data)
             /\ Len(calls) >= 1
             /\ calls[1] = "token"
             /\ pc = "raised" => result.cause # "ValueError"
       /\ \A k \in 1..Len(sent) : Rectangular(sent[k].values)

\* a dict whose two value lists differ in length was rejected by write_multi_data
C13_Witness ==
    /\ op = "write_multi_data"
    /\ pc = "raised"
    /\ args.input_data.type = "dict"
    /\ Len(args.input_data.keys) = 2
    /\ Len(args.input_data.values[1]) # Len(args.input_data.values[2])
    /\ result = Error(<<"write_multi_data", "to_2d_list">>, "ValueError", 0, "")
    /\ calls = <<>>

\* the cell of the input of a write that belongs at row r, column c of the grid
InputCell(input_data, r, c) ==
    IF input_data.type = "list" THEN input_data.rows[r][c]
    ELSE IF input_data.type = "dict"
    THEN (IF r = 1 THEN input_data.keys[c] ELSE input_data.values[c][r - 1])
    ELSE (IF r = 1 THEN input_data.columns[c] ELSE input_data.values[r - 1][c])

\* C14: in every put of write_multi_data and batch_write_multi_data no cell of the values
\* is None or NaN: the cell sent at a row and column is the empty string where the input
\* has None or NaN at that row and column, and the input's cell itself everywhere else.
C14_NoNullSent ==
    Writing
    => \A k \in 1..Len(sent) :
         \A r \in 1..Len(sent[k].values) :
           \A c \in 1..Len(sent[k].values[r]) :
             LET given == InputCell(args.input_data, RowsBefore(k - 1) + r, c)
             IN /\ sent[k].values[r][c] \notin {None, NaN}
                /\ given \in {None, NaN} => sent[k].values[r][c] = EmptyStr
                /\ given \notin {None, NaN} => sent[k].values[r][c] = given

\* write_multi_data sent a list of 2 x 2 whose first cell is NaN and whose last is None
C14_Witness ==
    /\ op = "write_multi_data"
    /\ pc = "returned"
    /\ args.input_data.type = "list"
    /\ Len(args.input_data.rows) = 2
    /\ args.input_data.rows[1] = <<NaN, Cell(1, 2)>>
    /\ args.input_data.rows[2] = <<Cell(2, 1), None>>
    /\ Len(sent) = 1
    /\ sent[1].values = <<<<EmptyStr, Cell(1, 2)>>, <<Cell(2, 1), EmptyStr>>>>

----------------------------------------------------------------------------
(* What the error of a failed batched write tells the caller *)

\* C15 (as claimed): when batch_write_multi_data raises for a failed put, the error names
\* the method, carries the code and the message of the failing response, and identifies
\* the batch that failed: no other batch of the call would have raised the same error.
C15_ErrorNamesUnit ==
    (op = "batch_write_multi_data" /\ FailedOnUnit)
    => /\ result.where[1] = "batch_write_multi_data"
       /\ result.code = response_dict.code
       /\ result.msg = response_dict.msg
       /\ \A k \in Range(PyRange(0, total_rows(args), args.batch_size)) :
            k # idx => put_error(args, k, response_dict) # result

----------------------------------------------------------------------------
(* The table returned by a read *)

\* the labels of the collected header row that are neither null nor empty
CleanLabels == Range(data_all[1]) \ {None, NaN, EmptyStr}

\* the collected rows after the header that hold a cell that is not null
CleanRows == SelectSeq(Tail(data_all), LAMBDA row : \E c \in 1..Len(row) : row[c] \notin {None, NaN})

\* the place of a label in the collected header row
PositionOf(label) == CHOOSE p \in 1..Len(data_all[1]) : data_all[1][p] = label

\* a read with requested columns is over after it fetched every window
ReadAllFetched ==
    /\ op = "load_sheet_data_to_df"
    /\ pc \in {"returned", "raised"}
    /\ Len(args.target_column_names) > 0
    /\ Len(url_list) > 0
    /\ Len(committed) = Len(url_list)
    /\ Len(data_all) > 0

\* C16: a read with a non-empty target_column_names that fetched all its windows returns
\* the table of exactly the requested columns, in the requested order, each holding the
\* cells of the column of that label in the cleaned rows, when every requested label is
\* among the labels left after cleanup; when one is not (it is not in the header row, or
\* it is the empty label, whose column was dropped) the read raises and returns no table.
C16_Projection ==
    ReadAllFetched
    => IF Range(args.target_column_names) \subseteq CleanLabels
       THEN /\ pc = "returned"
            /\ result.type = "dataframe"
            /\ result.columns = args.target_column_names
            /\ result.values =
                 [i \in 1..Len(CleanRows) |->
                    [k \in 1..Len(args.target_column_names) |->
                        CleanRows[i][PositionOf(args.target_column_names[k])]]]
       ELSE /\ pc = "raised"
            /\ result.type = "error"
            /\ result.where = <<"load_sheet_data_to_df">>
            /\ result.cause = "KeyError"

\* the columns labelled 103 and 101 were requested in that order: the table has them so
C16_Witness ==
    /\ ReadAllFetched
    /\ pc = "returned"
    /\ args.target_column_names = <<103, 101>>
    /\ data_all[1] = <<101, EmptyStr, 103>>
    /\ result.columns = <<103, 101>>
    /\ result.values = <<<<Cell(2, 3), Cell(2, 1)>>>>

----------------------------------------------------------------------------
(* The token of a call *)

\* the methods that request a tenant access token
TokenUsers ==
    {"load_data_from_sheet", "load_sheet_data_to_df", "write_multi_data",
     "batch_write_multi_data"}

\* how often the call has requested a token
TokenRequests == Len(SelectSeq(calls, LAMBDA c : c = "token"))

C17_OneToken ==
    op \in TokenUsers
    => /\ TokenRequests <= 1
       /\ auth \subseteq {bearer_token}
       /\ bearer_token # 0 => (bearer_token = issued /\ TokenRequests = 1)
       /\ (Len(sent) > 0 \/ HeaderRequests > 0 \/ pc \in AwaitingData)
          => /\ TokenRequests = 1
             /\ bearer_token # 0
             /\ auth = {bearer_token}
       /\ pc = "returned" => (TokenRequests = 1 /\ bearer_token = issued)

C17_Acquire ==
    /\ (pc = "idle" /\ op' \in TokenUsers)
       => (bearer_token' = 0 /\ auth' = {} /\ issued' = issued)
    /\ bearer_token' \notin {bearer_token, 0}
       => /\ op \in TokenUsers
          /\ bearer_token = 0
          /\ bearer_token' = issued + 1
          /\ issued' = issued + 1
    /\ issued' # issued => bearer_token' = issued'

\* C17: a call of load_data_from_sheet, load_sheet_data_to_df, write_multi_data or
\* batch_write_multi_data starts without a token, requests one at most once and, before
\* its first data get or put, exactly once; the token it gets is one the remote had not
\* issued before, and every data request of the call carries that token and no other.
C17_FreshToken == []C17_OneToken /\ [][C17_Acquire]_vars

\* the second call of the client, a read with a header and two windows, used token 2 alone
C17_Witness ==
    /\ op = "load_sheet_data_to_df"
    /\ pc = "returned"
    /\ issued = 2
    /\ bearer_token = 2
    /\ HeaderRequests = 1
    /\ Len(sent) = 2
    /\ auth = {2}

----------------------------------------------------------------------------
(* The order of the batches of a write *)

\* the requests of the current batch that have no response yet
InFlight == NumRequests - Len(ResponseCodes)

C18_Ordered ==
    WriteInProgress
    => /\ \A k \in 1..Len(sent) :
            /\ sent[k].range.data_range.start_number
                    = OriginOf(args.start_loc).row + (k - 1) * args.batch_size
            /\ \A j \in 1..(k - 1) :
                    sent[j].range.data_range.start_number
                        < sent[k].range.data_range.start_number
       /\ committed = [j \in 1..Len(committed) |-> (j - 1) * args.batch_size]
       /\ Len(committed) \in {Len(sent) - 1, Len(sent)}
       /\ InFlight \in {0, 1}
       /\ InFlight = 1 <=> pc = "put"
       /\ pc = "put" => Len(committed) = Len(sent) - 1

C18_AfterSuccess ==
    (WriteInProgress /\ Len(sent') > Len(sent) /\ Len(sent) > 0)
    => /\ Len(sent') = Len(sent) + 1
       /\ InFlight = 0
       /\ unit_log[Len(unit_log)] = Response(Success)
       /\ response_dict.code = 0
       /\ Len(committed) = Len(sent)
       /\ unit_log' = <<Request("put", 0)>>

\* C18: the batches of a write with batch_size >= 1 are sent in ascending order of their
\* start rows, batch k at start row + (k - 1) * batch_size; the first put of a batch is
\* sent only when the last response to the batch before it had status 0; the batches
\* answered with success are at every moment the first ones of the plan, all or all but
\* the last of those sent, and at most one put awaits its response.
C18_Sequential == []C18_Ordered /\ [][C18_AfterSuccess]_vars

\* the third batch of a write is being sent again after a failure; two are committed
C18_Witness ==
    /\ WriteInProgress
    /\ pc = "put"
    /\ args.batch_size = 1
    /\ Len(sent) = 3
    /\ committed = <<0, 1>>
    /\ NumRequests = 2
    /\ InFlight = 1

----------------------------------------------------------------------------
(* The waits between the attempts of a sub-request *)

\* the number (from 0) of the attempt whose response is the event at position j
AttemptOf(j) == Len(SelectSeq(SubSeq(unit_log, 1, j - 1), LAMBDA e : e.ev = "response"))

\* the time slept so far for the current sub-request
RECURSIVE TotalSleep(_)
TotalSleep(log) ==
    IF Len(log) = 0 THEN 0
    ELSE (IF Head(log).ev = "sleep" THEN Head(log).n ELSE 0) + TotalSleep(Tail(log))

\* C19 (as claimed): in a batched write and in a batched read, a failed attempt a in 0..3
\* of a sub-request is followed by a wait of exactly 10 * (a + 1) and then by attempt
\* a + 1; the log of a sub-request holds no other wait: none after a response with
\* status 0, none after a payload-too-large response, none after the fifth failure; the
\* waits of one sub-request add up to 100 at most.
C19_Backoff ==
    /\ \A j \in 1..Len(unit_log) :
        /\ unit_log[j].ev = "sleep"
           => /\ j > 1
              /\ unit_log[j - 1].ev = "response"
              /\ Transient(unit_log[j - 1].n)
              /\ AttemptOf(j - 1) \in 0..3
              /\ unit_log[j].n = 10 * (AttemptOf(j - 1) + 1)
        /\ (unit_log[j].ev = "response" /\ Transient(unit_log[j].n) /\ AttemptOf(j) <= 3)
           => /\ j + 2 <= Len(unit_log)
              /\ unit_log[j + 1] = Sleep(10 * (AttemptOf(j) + 1))
              /\ unit_log[j + 2].ev \in {"put", "get"}
              /\ unit_log[j + 2].n = AttemptOf(j) + 1
        /\ (unit_log[j].ev = "response"
                /\ (unit_log[j].n \in {0, 90227} \/ AttemptOf(j) = 4))
           => j = Len(unit_log)
    /\ TotalSleep(unit_log) <= 100

----------------------------------------------------------------------------
(* The rows collected by a read *)

\* row r of the remote sheet in the columns of the call
SheetRow(r) ==
    [k \in 1..(PlaceOf(args.col_id_end) - PlaceOf(args.col_id_start) + 1) |->
        RemoteCell(r, PlaceOf(args.col_id_start) + k - 1)]

\* the rows of the windows answered with success so far
FetchedRows ==
    IF Len(committed) = 0 THEN 0
    ELSE url_list[Len(committed)].data_range.end_number - args.row_id_start + 1

\* C20: while a read fetches its windows and when it returns, the data collected are the
\* header row (when row_id_start > 1) followed by the rows of the windows answered with
\* success, in the order of the plan and each row once, whatever number of failed
\* attempts went before; when the read returns these are the rows of all its windows.
C20_Assembly ==
    (op = "load_sheet_data_to_df" /\ pc \in {"get", "next_url", "returned"})
    => /\ data_all =
            (IF args.row_id_start > 1 THEN <<SheetRow(1)>> ELSE <<>>)
                \o [i \in 1..FetchedRows |-> SheetRow(args.row_id_start + i - 1)]
       /\ committed = [j \in 1..Len(committed) |-> j]
       /\ pc = "returned"
          => /\ Len(committed) = Len(url_list)
             /\ Len(url_list) > 0 => FetchedRows = args.row_id_end - args.row_id_start + 1

\* rows 2 to 4 read in windows of two; the second window took three attempts
C20_Witness ==
    /\ op = "load_sheet_data_to_df"
    /\ pc = "returned"
    /\ args.row_id_start = 2
    /\ args.row_id_end = 4
    /\ args.batch_size = 2
    /\ NumRequests = 3
    /\ Len(committed) = 2
    /\ data_all = <<SheetRow(1), SheetRow(2), SheetRow(3), SheetRow(4)>>

----------------------------------------------------------------------------
(* The ranges sent to the remote side *)

\* a range that is a rectangle of the sheet: both columns among A..ZZ, the end column
\* not left of the start column, the end row not above the start row
IsRectangle(data_range) ==
    /\ data_range.start_letter \in AllLabels
    /\ data_range.end_letter \in AllLabels
    /\ PlaceOf(data_range.end_letter) >= PlaceOf(data_range.start_letter)
    /\ data_range.end_number >= data_range.start_number

\* the operations whose ranges the claim is about
RangeSenders == {"load_sheet_data_to_df", "write_multi_data", "batch_write_multi_data"}

\* C21: every range sent by load_sheet_data_to_df (data windows and header window),
\* write_multi_data and batch_write_multi_data is a rectangle: its end row is not above
\* its start row, its end column is not left of its start column, and both columns are
\* among the 702 labels.
C21_RangesWellFormed ==
    op \in RangeSenders
    => /\ \A k \in 1..Len(sent) : IsRectangle(sent[k].range.data_range)
       /\ (op = "load_sheet_data_to_df" /\ HeaderRequests > 0)
          => IsRectangle(head_section(args, sheet_id).data_range)

\* the ranges of the two writes alone
C21_WriteRangesWellFormed ==
    op \in {"write_multi_data", "batch_write_multi_data"}
    => \A k \in 1..Len(sent) : IsRectangle(sent[k].range.data_range)

----------------------------------------------------------------------------
(* What a batched write has sent when it returns *)

\* a batched write that came back without raising
WriteReturned ==
    /\ op = "batch_write_multi_data"
    /\ pc = "returned"

\* C22: for every batch_size, positive, zero or negative, a batched write that returns
\* without raising has sent every row of the normalized grid in exactly one put that was
\* answered with status 0: nothing is left unsent at a normal return.
C22_ReturnMeansAllSent ==
    WriteReturned
    => /\ SentRows = standard_data(args)
       /\ Len(committed) = Len(sent)
       /\ \A k \in 1..Len(sent) : committed[k] = RowsBefore(k - 1)

\* the same for the batch sizes of at least one
C22_PositiveBatchAllSent ==
    (WriteReturned /\ args.batch_size >= 1)
    => /\ SentRows = standard_data(args)
       /\ Len(committed) = Len(sent)
       /\ \A k \in 1..Len(sent) : committed[k] = RowsBefore(k - 1)

\* a batch size of zero never comes back without raising
C22_ZeroBatchRaises ==
    (op = "batch_write_multi_data" /\ args.batch_size = 0) => pc # "returned"

----------------------------------------------------------------------------
(* A batched write called through select_batch_write_multi_data *)

\* the batched write runs for select_batch_write_multi_data
Selected ==
    /\ op = "batch_write_multi_data"
    /\ caller.method = "select_batch_write_multi_data"

\* the rows of the k-th put of a batched write of the grid in batches of b rows
PlannedRows(grid, b, k) ==
    [i \in 1..(Min(k * b, Len(grid)) - (k - 1) * b) |-> grid[(k - 1) * b + i]]

\* C23: select_batch_write_multi_data with batch size b sends the puts that
\* batch_write_multi_data sends with batch_size = b: the k-th put holds rows
\* (k - 1) * b + 1 to k * b of the grid (the last one the rows left), so no put holds
\* more than b rows.
C23_SelectedBatchSize ==
    Selected
    => \A k \in 1..Len(sent) :
          /\ Len(sent[k].values) <= caller.batch_size
          /\ sent[k].values = PlannedRows(standard_data(args), caller.batch_size, k)

\* what the code does instead: the batch size never reaches batch_write_multi_data,
\* which runs with its default
C23_DefaultBatchSize ==
    Selected => args.batch_size = default_batch_size

----------------------------------------------------------------------------
(* Termination of the batched operations *)

\* every request gets its response and the method goes on running: the responses to
\* the token request, the sheet query and each put and get arrive, and the loops step
Progress ==
    \/ TokenResp
    \/ SheetResp
    \/ PutResp
    \/ NextBatch
    \/ HeadResp
    \/ GetResp
    \/ NextUrl

Responsive == WF_vars(Progress)

\* the client about to make the last call the bound on tokens leaves room for
LastCallInit ==
    /\ op = "none"
    /\ pc = "idle"
    /\ args = NoArgs
    /\ bearer_token = 0
    /\ sheet_id = ""
    /\ url_list = <<>>
    /\ idx = 0
    /\ attempt = 0
    /\ data_all = <<>>
    /\ calls = <<>>
    /\ sent = <<>>
    /\ unit_log = <<>>
    /\ committed = <<>>
    /\ response_dict = NoResponse
    /\ result = NoResult
    /\ auth = {}
    /\ issued = MaxTokens - 1
    /\ caller = NoCaller

FairSpec == LastCallInit /\ [][Next]_vars /\ Responsive

\* a call of one of the two batched operations with a batch size of at least one
Batched ==
    /\ op \in {"batch_write_multi_data", "load_sheet_data_to_df"}
    /\ args.batch_size >= 1

\* the call has been made and has neither returned nor raised yet
BatchedRunning ==
    /\ Batched
    /\ pc \notin {"idle", "returned", "raised"}

\* the call has returned or raised
BatchedDone == pc \in {"returned", "raised"}

\* the most data requests the call may issue: five for each of its batches or windows
RequestBudget ==
    IF op = "batch_write_multi_data"
    THEN 5 * Ceil(total_rows(args), args.batch_size)
    ELSE 5 * Ceil(args.row_id_end - args.row_id_start + 1, args.batch_size)

\* the call's batches or windows are planned: the grid passed the checks of the write,
\* the rows of the read are in order
Planned ==
    /\ Batched
    /\ op = "batch_write_multi_data"
       => (formatted(args).ok /\ rows_valid(formatted(args).list_data))
    /\ op = "load_sheet_data_to_df" => args.row_id_start <= args.row_id_end

\* no more data requests than this were issued so far: five at most for each unit
\* before the current one, and those logged for the current one
RequestsAtMost == IF Len(sent) = 0 THEN 0 ELSE 5 * (Len(sent) - 1) + NumRequests

\* the units of the call and the requests of each stay within the budget, and at most
\* one request goes out for the header
WithinBudget ==
    Planned
    => /\ 5 * Len(sent) <= RequestBudget
       /\ NumRequests <= 5
       /\ RequestsAtMost <= RequestBudget
       /\ HeaderRequests <= (IF op = "load_sheet_data_to_df" THEN 1 ELSE 0)

\* a step of the call issues one data request at most: the current unit once more, or
\* the unit after it for the first time; a unit left behind is never sent again
OneRequestAStep ==
    (BatchedRunning /\ op' = op)
    => \/ sent' = sent /\ NumRequests' = NumRequests
       \/ sent' = sent /\ NumRequests' = NumRequests + 1
       \/ /\ Len(sent') = Len(sent) + 1
          /\ SubSeq(sent', 1, Len(sent)) = sent
          /\ NumRequests' = 1

\* C24: with every request answered in the end, a batched write or read with
\* batch_size >= 1 returns or raises; a write issues at most 5 * ceil(rows / batch_size)
\* puts, a read at most 5 * ceil((row_id_end - row_id_start + 1) / batch_size) data gets
\* and one get for the header at most.
C24_Terminates ==
    /\ []WithinBudget
    /\ [][OneRequestAStep]_vars
    /\ BatchedRunning ~> BatchedDone

\* three rows written one by one: the call returns after the third batch took all of
\* its five attempts
C24_Witness ==
    /\ op = "batch_write_multi_data"
    /\ pc = "returned"
    /\ args.batch_size = 1
    /\ total_rows(args) = 3
    /\ Len(sent) = 3
    /\ NumRequests = 5
    /\ RequestBudget = 15

====
